---- MODULE Spec2Model ----
(***************************************************************************)
(* AWS Cost Hygiene Guard: the Lambda handlers of src/lambda/index.mjs     *)
(* (v2), its predecessor v1.1 (Cost Explorer + Slack only) and v1 (EC2     *)
(* idle scan), with the helpers they call.                                  *)
(*                                                                         *)
(* Representation                                                          *)
(*  - a JavaScript string that the code inspects (startsWith, slice) is a  *)
(*    tuple of one-character strings; other strings are TLA+ strings;      *)
(*  - an optional value (undefined / null) is a tuple of length 0 or 1;    *)
(*  - a billing number is a record [t, v]: t = "num" (finite, value v),    *)
(*    "nan", "inf" (v = 1 or -1), "fn" (a function object) or "str" (the   *)
(*    string JavaScript's + produces from a non-number operand);           *)
(*  - a metric or cost number is an exact rational [n, d] in lowest terms  *)
(*    (IEEE rounding is not modelled).                                     *)
(***************************************************************************)
EXTENDS Integers, Sequences, FiniteSets, TLC

VARIABLES
    pc,          \* position of the running handler / driver
    ceResp,      \* Cost Explorer response being folded (ResultsByTime)
    tagKey,      \* COST_TAG_KEY
    totals,      \* the object `totals`: own entries in insertion order
    valueLog,    \* the value of the local `value` (or serviceName) per group
    arr,         \* the sorted array returned with timePeriod
    datapoints,  \* resp.Datapoints of the metric query being aggregated
    statistic,   \* the statistic the aggregate reads from each datapoint
    aggregate,   \* what the aggregation returned (absent: null)
    version,     \* which handler runs: "v1", "v1.1" or "v2"
    runningInstances,  \* buildEc2Section / v1 handler: the running instances
    detailed,    \* the instances with their avgCpu (`detailed`, `withCpu`)
    idleInstances,     \* detailed.filter(...)
    resourceDetails,   \* the sections appended to resourceDetails, in order
    listRequests,      \* each ListTables request sent: its start key and its answer
    allTableNames,     \* buildDynamoSection: the names collected so far
    lastEvaluatedTableName,  \* the continuation token of the last page
    processed,   \* how many tables the for loop has finished
    curTable,    \* the table being measured: size and read units so far
    ddbLines,    \* the per-table lines appended to the section text
    totalDdbMonthlyCost,     \* running sum of the table costs
    ddbEstimatedMonthlyCost, \* handler: null, or the estimate of the section
    topServices, \* handler: arr.slice(0, 10) of the by-service query
    slackEnv,    \* SLACK_BOT_TOKEN and SLACK_CHANNEL_ID are both set
    slackCalls,  \* the texts postToSlack was called with
    fetchCalls,  \* the requests postToSlack sent to chat.postMessage
    errors,      \* the console.error messages, in order
    result       \* the handler's outcome: pending, returned (with the body) or thrown

billingVars == <<ceResp, tagKey, totals, valueLog, arr>>

metricVars == <<datapoints, statistic, aggregate>>

ec2Vars == <<runningInstances, detailed, idleInstances>>

ddbVars == <<listRequests, allTableNames, lastEvaluatedTableName, processed, curTable,
             ddbLines, totalDdbMonthlyCost>>

slackVars == <<slackEnv, slackCalls, fetchCalls>>

vars == <<pc, version, billingVars, metricVars, ec2Vars, ddbVars, resourceDetails,
          ddbEstimatedMonthlyCost, topServices, slackVars, errors, result>>

---------------------------------------------------------------------------
(* Optional values: undefined is <<>>, a present value x is <<x>>.          *)

None == <<>>

Some(x) == <<x>>

\* a ?? d
OrElse(m, d) == IF m = None THEN d ELSE m[1]

---------------------------------------------------------------------------
(* Strings the code takes apart.                                           *)

NoValue == <<"(", "n", "o", " ", "v", "a", "l", "u", "e", ")">>

UNKNOWN == <<"U", "N", "K", "N", "O", "W", "N">>

\* String.prototype.startsWith
StartsWith(s, p) == Len(p) <= Len(s) /\ SubSeq(s, 1, Len(p)) = p

\* String.prototype.slice(n), 0 <= n
Slice(s, n) == SubSeq(s, n + 1, Len(s))

ParseTagValue_KeepEmpty(rawKey, tk) ==
    IF rawKey = <<>> THEN NoValue
    ELSE LET prefix == tk \o <<"$">>
         IN  IF StartsWith(rawKey, prefix)
             THEN Slice(rawKey, Len(prefix))
             ELSE rawKey

\* parseTagValue(rawKey, tagKey)
ParseTagValue(rawKey, tk) ==
    IF rawKey = <<>> THEN NoValue
    ELSE LET prefix == tk \o <<"$">>
         IN  IF StartsWith(rawKey, prefix)
             THEN LET value == Slice(rawKey, Len(prefix))
                  IN  IF value = <<>> THEN NoValue ELSE value
             ELSE rawKey

---------------------------------------------------------------------------
(* Billing numbers.                                                        *)

Num(i) == [t |-> "num", v |-> i]

NaN == [t |-> "nan", v |-> 0]

Infinity == [t |-> "inf", v |-> 1]

NegInfinity == [t |-> "inf", v |-> -1]

FunctionObject == [t |-> "fn", v |-> 0]

ConcatString == [t |-> "str", v |-> 0]

\* parseFloat on the amount strings the model feeds it: the longest numeric
\* prefix is converted, "Infinity" is recognised, anything else is NaN.
ParseFloat(s) ==
    CASE s = "0"         -> Num(0)
      [] s = "1"         -> Num(1)
      [] s = "2"         -> Num(2)
      [] s = "3"         -> Num(3)
      [] s = "-1"        -> Num(-1)
      [] s = "2USD"      -> Num(2)
      [] s = "Infinity"  -> Infinity
      [] s = "-Infinity" -> NegInfinity
      [] s = "1e999"     -> Infinity
      [] OTHER           -> NaN

\* Number.isFinite
IsFinite(x) == x.t = "num"

\* typeof x === "number"
IsNumber(x) == x.t \in {"num", "nan", "inf"}

\* Names every object inherits from Object.prototype: `totals = {}` answers a
\* lookup of one of them with a function even when it has no such own entry.
ObjectPrototypeKeys ==
    { <<"v", "a", "l", "u", "e", "O", "f">>,
      <<"t", "o", "S", "t", "r", "i", "n", "g">>,
      <<"c", "o", "n", "s", "t", "r", "u", "c", "t", "o", "r">> }

HasOwn(obj, k) == \E i \in 1..Len(obj) : obj[i].key = k

OwnIndex(obj, k) == CHOOSE i \in 1..Len(obj) : obj[i].key = k

\* totals[k]: own entry, else the prototype chain, else undefined
Lookup(obj, k) ==
    IF HasOwn(obj, k) THEN Some(obj[OwnIndex(obj, k)].amount)
    ELSE IF k \in ObjectPrototypeKeys THEN Some(FunctionObject)
    ELSE None

\* x || 0
OrZero(m) ==
    IF m = None THEN Num(0)
    ELSE IF m[1].t = "num" /\ m[1].v = 0 THEN Num(0)
    ELSE IF m[1].t = "nan" THEN Num(0)
    ELSE m[1]

\* a + b: numeric addition of two finite numbers, string concatenation as soon
\* as one operand is a function or a string
JsAdd(a, b) ==
    IF a.t = "num" /\ b.t = "num" THEN Num(a.v + b.v) ELSE ConcatString

\* totals[k] = x: an existing own entry keeps its place, a new one is appended
Store(obj, k, x) ==
    IF HasOwn(obj, k)
    THEN [obj EXCEPT ![OwnIndex(obj, k)] = [key |-> k, amount |-> x]]
    ELSE Append(obj, [key |-> k, amount |-> x])

---------------------------------------------------------------------------
(* Cost Explorer responses and the totals fold.                            *)

\* for (const day of resp.ResultsByTime ?? []) for (const group of day.Groups ?? [])
\* : the groups in the order the two loops visit them
RECURSIVE DayGroups(_)
DayGroups(days) ==
    IF days = <<>> THEN <<>>
    ELSE OrElse(Head(days).Groups, <<>>) \o DayGroups(Tail(days))

AllGroups(resp) == DayGroups(OrElse(resp.ResultsByTime, <<>>))

\* group.Keys[0]
FirstKey(group) == IF Len(group.Keys) = 0 THEN None ELSE Some(group.Keys[1])

\* const serviceName = group.Keys[0] ?? "UNKNOWN"
ServiceName(group) == OrElse(FirstKey(group), UNKNOWN)

\* const value = parseTagValue(group.Keys[0] ?? "", tagKey)
TagValue(group, tk) == ParseTagValue(OrElse(FirstKey(group), <<>>), tk)

\* parseFloat(group.Metrics.UnblendedCost.Amount ?? "0")
Amt(group) == ParseFloat(OrElse(group.Amount, "0"))

\* if (!Number.isFinite(amt)) continue; totals[k] = (totals[k] || 0) + amt;
AddToTotals(obj, k, amt) ==
    IF ~IsFinite(amt) THEN obj
    ELSE Store(obj, k, JsAdd(OrZero(Lookup(obj, k)), amt))

RECURSIVE ServiceTotals(_, _)
ServiceTotals(groups, obj) ==
    IF groups = <<>> THEN obj
    ELSE ServiceTotals(Tail(groups),
                       AddToTotals(obj, ServiceName(Head(groups)), Amt(Head(groups))))

RECURSIVE TagTotals(_, _, _)
TagTotals(groups, tk, obj) ==
    IF groups = <<>> THEN obj
    ELSE TagTotals(Tail(groups), tk,
                   AddToTotals(obj, TagValue(Head(groups), tk), Amt(Head(groups))))

\* (a, b) => b.amount - a.amount; a non-numeric operand makes the difference
\* NaN, which Array.prototype.sort treats as 0
Compare(a, b) ==
    IF a.amount.t = "num" /\ b.amount.t = "num" THEN b.amount.v - a.amount.v ELSE 0

\* one step of a stable insertion: e goes before the first element that the
\* comparator orders strictly after it
RECURSIVE InsertSorted(_, _)
InsertSorted(sorted, e) ==
    IF sorted = <<>> THEN <<e>>
    ELSE IF Compare(Head(sorted), e) > 0 THEN <<e>> \o sorted
    ELSE <<Head(sorted)>> \o InsertSorted(Tail(sorted), e)

RECURSIVE SortFrom(_, _)
SortFrom(entries, sorted) ==
    IF entries = <<>> THEN sorted
    ELSE SortFrom(Tail(entries), InsertSorted(sorted, Head(entries)))

\* Object.entries(totals).map(...).sort((a, b) => b.amount - a.amount):
\* Object.entries lists the own keys in insertion order (no key of the model
\* is an array index) and the sort is stable
Rank(obj) == SortFrom(obj, <<>>)

---------------------------------------------------------------------------
(* Metric and cost numbers: exact rationals n/d, d > 0, in lowest terms.   *)

Abs(i) == IF i < 0 THEN -i ELSE i

RECURSIVE GCD(_, _)
GCD(a, b) == IF b = 0 THEN a ELSE GCD(b, a % b)

\* the number n/d
R(n, d) ==
    LET g == GCD(Abs(n), Abs(d))
        sgn == IF d < 0 THEN -1 ELSE 1
    IN  [n |-> sgn * (n \div g), d |-> sgn * (d \div g)]

Int2R(i) == [n |-> i, d |-> 1]

RAdd(a, b) ==
    LET g == GCD(a.d, b.d)
    IN  R(a.n * (b.d \div g) + b.n * (a.d \div g), (a.d \div g) * b.d)

RMul(a, b) ==
    LET x == R(a.n, b.d)
        y == R(b.n, a.d)
    IN  [n |-> x.n * y.n, d |-> x.d * y.d]

\* a / b, b # 0
RDiv(a, b) == RMul(a, R(b.d, b.n))

RLess(a, b) == a.n * b.d < b.n * a.d

---------------------------------------------------------------------------
(* CloudWatch datapoints and their aggregate.                              *)

\* dp[key]
Stat(dp, key) == IF key = "Average" THEN dp.Average ELSE dp.Sum

\* datapoints.reduce((acc, dp) => acc + (dp[key] ?? 0), 0)
RECURSIVE ReduceSum(_, _, _)
ReduceSum(dps, key, acc) ==
    IF dps = <<>> THEN acc
    ELSE ReduceSum(Tail(dps), key, RAdd(acc, Int2R(OrElse(Stat(Head(dps), key), 0))))

RECURSIVE PresentCount(_, _)
PresentCount(dps, key) ==
    IF dps = <<>> THEN 0
    ELSE (IF Stat(Head(dps), key) = None THEN 0 ELSE 1) + PresentCount(Tail(dps), key)

GetMetricAggregate_DividesByPresent(dpsOpt, stat) ==
    LET dps == OrElse(dpsOpt, <<>>)
    IN  IF PresentCount(dps, stat) = 0 THEN None
        ELSE Some(RDiv(ReduceSum(dps, stat, Int2R(0)), Int2R(PresentCount(dps, stat))))

\* getMetricAggregate({..., statistic}) on the response's Datapoints
GetMetricAggregate(dpsOpt, stat) ==
    LET dps == OrElse(dpsOpt, <<>>)
    IN  IF Len(dps) = 0 THEN None
        ELSE Some(RDiv(ReduceSum(dps, stat, Int2R(0)), Int2R(Len(dps))))

\* getAverageCpuForInstance(instanceId) on the response's Datapoints (v1)
GetAverageCpuForInstance(dpsOpt) ==
    LET dps == OrElse(dpsOpt, <<>>)
    IN  IF Len(dps) = 0 THEN None
        ELSE Some(RDiv(ReduceSum(dps, "Average", Int2R(0)), Int2R(Len(dps))))

MaxDatapoints == 3

Datapoint(a, s) == [Average |-> a, Sum |-> s]

DatapointInputs ==
    { Datapoint(Some(2), None),
      Datapoint(Some(4), Some(7)),
      Datapoint(Some(5), Some(0)),
      Datapoint(Some(6), Some(1)),
      Datapoint(None, Some(5)),
      Datapoint(None, None) }

DatapointSeqs == UNION { [1..n -> DatapointInputs] : n \in 0..MaxDatapoints }

\* resp.Datapoints: absent, or an array
DatapointResponses == { None } \cup { Some(dps) : dps \in DatapointSeqs }

MetricIdle ==
    /\ datapoints = None
    /\ statistic = "Average"
    /\ aggregate = None

\* buildDynamoSection has not started
DdbIdle ==
    /\ listRequests = <<>>
    /\ allTableNames = <<>>
    /\ lastEvaluatedTableName = None
    /\ processed = 0
    /\ curTable = [sizeBytes |-> 0, readUnits |-> [n |-> 0, d |-> 1]]
    /\ ddbLines = <<>>
    /\ totalDdbMonthlyCost = [n |-> 0, d |-> 1]

\* no handler is running
HandlerIdle ==
    /\ version = "none"
    /\ runningInstances = <<>>
    /\ detailed = <<>>
    /\ idleInstances = <<>>
    /\ resourceDetails = <<>>
    /\ DdbIdle
    /\ ddbEstimatedMonthlyCost = None
    /\ topServices = <<>>
    /\ slackEnv = FALSE
    /\ slackCalls = <<>>
    /\ fetchCalls = <<>>
    /\ errors = <<>>
    /\ result = [status |-> "pending"]

handlerVars == <<version, ec2Vars, ddbVars, resourceDetails, ddbEstimatedMonthlyCost,
                 topServices, slackVars, errors, result>>

---------------------------------------------------------------------------
(* The aggregation on its own.                                             *)

InitMetric ==
    /\ pc = "metric"
    /\ datapoints \in DatapointResponses
    /\ statistic = "Average"
    /\ aggregate = None
    /\ ceResp = [ResultsByTime |-> None]
    /\ tagKey = <<"P">>
    /\ totals = <<>>
    /\ valueLog = <<>>
    /\ arr = <<>>
    /\ HandlerIdle

\* getMetricAggregate called with either statistic
AggregateMetric ==
    /\ pc = "metric"
    /\ pc' = "aggregated"
    /\ \E stat \in {"Average", "Sum"} :
           /\ statistic' = stat
           /\ aggregate' = GetMetricAggregate(datapoints, stat)
    /\ UNCHANGED <<datapoints, billingVars, handlerVars>>

\* getAverageCpuForInstance (v1)
AggregateCpu ==
    /\ pc = "metric"
    /\ pc' = "cpuAveraged"
    /\ statistic' = "Average"
    /\ aggregate' = GetAverageCpuForInstance(datapoints)
    /\ UNCHANGED <<datapoints, billingVars, handlerVars>>

NextMetric == AggregateMetric \/ AggregateCpu

SpecMetric == InitMetric /\ [][NextMetric]_vars

\* the sum of dp[statistic] ?? 0 over the first n datapoints
RECURSIVE ValueSum(_)
ValueSum(n) ==
    IF n = 0 THEN 0
    ELSE ValueSum(n - 1) +
         (IF Stat(OrElse(datapoints, <<>>)[n], statistic) = None THEN 0
          ELSE Stat(OrElse(datapoints, <<>>)[n], statistic)[1])

\* C5: the aggregate is absent for the empty datapoint sequence and otherwise
\* the sum of the per-datapoint values (a missing value counting 0) divided by
\* the number of datapoints, for statistic Average and Sum alike.
C5_AggregateIsMean ==
    pc \in {"aggregated", "cpuAveraged"} =>
        LET count == Len(OrElse(datapoints, <<>>))
        IN  IF count = 0 THEN aggregate = None
            ELSE /\ aggregate # None
                 /\ aggregate[1].d > 0
                 /\ aggregate[1].n * count = ValueSum(count) * aggregate[1].d

\* statistic Sum aggregated over datapoints of which one has no value
C5_Witness ==
    /\ pc = "aggregated"
    /\ statistic = "Sum"
    /\ Len(OrElse(datapoints, <<>>)) = 3
    /\ \E n \in 1..3 : datapoints[1][n].Sum = None
    /\ \E n \in 1..3 : datapoints[1][n].Sum # None
    /\ aggregate = Some(R(ValueSum(3), 3))

---------------------------------------------------------------------------
(* Inputs of the billing fold.                                             *)

MaxGroups == 3

Key_w == <<"w">>
Key_Pw == <<"P", "$", "w">>
Key_Pa == <<"P", "$", "a">>
Key_P == <<"P", "$">>
Key_Ox == <<"O", "$", "x">>
Key_valueOf == <<"v", "a", "l", "u", "e", "O", "f">>

Group(keys, amount) == [Keys |-> keys, Amount |-> amount]

GroupInputs ==
    { Group(<<Key_Pw>>, Some("1")),
      Group(<<Key_w>>, Some("2")),
      Group(<<Key_Pa>>, Some("1")),
      Group(<<Key_w>>, Some("-1")),
      Group(<<Key_P>>, Some("NaN")),
      Group(<<Key_Ox>>, Some("Infinity")),
      Group(<<<<>>>>, Some("2USD")),
      Group(<<>>, None),
      Group(<<Key_valueOf>>, Some("3")) }

GroupSeqs == UNION { [1..n -> GroupInputs] : n \in 0..MaxGroups }

\* the groups gs delivered as two daily buckets, split after the k-th group
Days(gs, k) ==
    << [Groups |-> IF k = 0 THEN None ELSE Some(SubSeq(gs, 1, k))],
       [Groups |-> Some(SubSeq(gs, k + 1, Len(gs)))] >>

CeResponses ==
    { [ResultsByTime |-> None] } \cup
    UNION { { [ResultsByTime |-> Some(Days(gs, k))] :
                  k \in 0..(IF Len(gs) < 2 THEN Len(gs) ELSE 2) } : gs \in GroupSeqs }

TagKeys == { <<"P">>, <<"O">> }

---------------------------------------------------------------------------
(* The billing fold on its own: the input is drawn, then one of the two    *)
(* queries folds and ranks it.                                             *)

RECURSIVE ServiceNames(_)
ServiceNames(groups) ==
    IF groups = <<>> THEN <<>>
    ELSE <<ServiceName(Head(groups))>> \o ServiceNames(Tail(groups))

RECURSIVE TagValues(_, _)
TagValues(groups, tk) ==
    IF groups = <<>> THEN <<>>
    ELSE <<TagValue(Head(groups), tk)>> \o TagValues(Tail(groups), tk)

InitBilling ==
    /\ pc = "billing"
    /\ ceResp \in CeResponses
    /\ tagKey \in TagKeys
    /\ totals = <<>>
    /\ valueLog = <<>>
    /\ arr = <<>>
    /\ MetricIdle
    /\ HandlerIdle

\* getCostByServiceLast7Days on the response ceResp
FoldByService ==
    /\ pc = "billing"
    /\ pc' = "byService"
    /\ totals' = ServiceTotals(AllGroups(ceResp), <<>>)
    /\ valueLog' = ServiceNames(AllGroups(ceResp))
    /\ arr' = Rank(totals')
    /\ UNCHANGED <<ceResp, tagKey, metricVars, handlerVars>>

\* getCostByTagLast7Days(tagKey) on the response ceResp
FoldByTag ==
    /\ pc = "billing"
    /\ pc' = "byTag"
    /\ totals' = TagTotals(AllGroups(ceResp), tagKey, <<>>)
    /\ valueLog' = TagValues(AllGroups(ceResp), tagKey)
    /\ arr' = Rank(totals')
    /\ UNCHANGED <<ceResp, tagKey, metricVars, handlerVars>>

NextBilling == FoldByService \/ FoldByTag

SpecBilling == InitBilling /\ [][NextBilling]_vars

---------------------------------------------------------------------------
(* Properties of the billing fold.                                         *)

BillingDone == pc \in {"byService", "byTag"}

\* the characters of the model's keys in ascending UTF-16 code unit order
CharOrder ==
    << " ", "$", "(", ")", "K", "N", "O", "P", "U", "W",
       "a", "e", "f", "l", "n", "o", "u", "v", "w", "x" >>

CharCode(c) == CHOOSE i \in 1..Len(CharOrder) : CharOrder[i] = c

\* s < t as JavaScript compares strings
RECURSIVE LexLess(_, _)
LexLess(s, t) ==
    IF t = <<>> THEN FALSE
    ELSE IF s = <<>> THEN TRUE
    ELSE IF CharCode(Head(s)) # CharCode(Head(t))
         THEN CharCode(Head(s)) < CharCode(Head(t))
    ELSE LexLess(Tail(s), Tail(t))

AllNumeric(a) == \A i \in 1..Len(a) : a[i].amount.t = "num"

\* the key the fold files group i of the response under
RawKeyOf(i) == OrElse(FirstKey(AllGroups(ceResp)[i]), <<>>)

\* the sum of the finite amounts of the groups 1..n filed under key k
RECURSIVE FiniteSum(_, _)
FiniteSum(k, n) ==
    IF n = 0 THEN 0
    ELSE FiniteSum(k, n - 1) +
         (IF valueLog[n] = k /\ IsFinite(Amt(AllGroups(ceResp)[n]))
          THEN Amt(AllGroups(ceResp)[n]).v ELSE 0)

HasFinite(k) ==
    \E n \in 1..Len(valueLog) :
        valueLog[n] = k /\ IsFinite(Amt(AllGroups(ceResp)[n]))

\* C6: the ranked list is sorted by amount descending and entries with equal
\* amounts appear in ascending lexicographic order of their keys.
C6_RankedTiesByKey ==
    (BillingDone /\ AllNumeric(arr)) =>
        \A i, j \in 1..Len(arr) :
            i < j =>
                \/ arr[i].amount.v > arr[j].amount.v
                \/ /\ arr[i].amount.v = arr[j].amount.v
                   /\ LexLess(arr[i].key, arr[j].key)

\* C7: after the fold, the total recorded for every parsed key equals the sum
\* of the finite amounts of the groups with that key, a key that only has
\* non-finite amounts has no total, and every group was visited.
C7_TotalsAreFiniteSums ==
    BillingDone =>
        /\ Len(valueLog) = Len(AllGroups(ceResp))
        /\ \A n \in 1..Len(valueLog) :
               LET k == valueLog[n]
               IN  IF HasFinite(k)
                   THEN /\ HasOwn(totals, k)
                        /\ totals[OwnIndex(totals, k)].amount = Num(FiniteSum(k, Len(valueLog)))
                   ELSE ~HasOwn(totals, k)

\* C8: parseTagValue returns "(no value)" for an empty rawKey and for rawKey =
\* tagKey + "$", the remainder after the prefix when it is non-empty, and
\* rawKey itself when rawKey is non-empty and does not start with the prefix.
C8_ParseGroupKey ==
    pc = "byTag" =>
        \A n \in 1..Len(valueLog) :
            LET raw == RawKeyOf(n)
                prefix == tagKey \o <<"$">>
                out == valueLog[n]
            IN  /\ (raw = <<>> \/ raw = prefix) => out = NoValue
                /\ (StartsWith(raw, prefix) /\ Len(raw) > Len(prefix)) =>
                       /\ prefix \o out = raw
                       /\ out # <<>>
                /\ (raw # <<>> /\ ~StartsWith(raw, prefix)) => out = raw

\* a fold by tag that met an empty key, a bare prefix, a prefixed value and a
\* key without the prefix
C8_Witness ==
    /\ pc = "byTag"
    /\ \E n \in 1..Len(valueLog) : RawKeyOf(n) = tagKey \o <<"$">> /\ valueLog[n] = NoValue
    /\ \E n \in 1..Len(valueLog) :
           /\ StartsWith(RawKeyOf(n), tagKey \o <<"$">>)
           /\ Len(valueLog[n]) = Len(RawKeyOf(n)) - Len(tagKey) - 1
           /\ valueLog[n] # NoValue
    /\ \E n \in 1..Len(valueLog) :
           /\ RawKeyOf(n) # <<>>
           /\ ~StartsWith(RawKeyOf(n), tagKey \o <<"$">>)
           /\ valueLog[n] = RawKeyOf(n)

---------------------------------------------------------------------------
(* EC2: the running instances, their average CPU and the idle candidates   *)
(* (buildEc2Section in v2, the handler itself in v1).                      *)

EC2_IDLE_CPU_THRESHOLD == 5

IDLE_CPU_THRESHOLD == 5

IdleThreshold == IF version = "v1" THEN IDLE_CPU_THRESHOLD ELSE EC2_IDLE_CPU_THRESHOLD

\* for (const instance of reservation.Instances ?? [])
\*   if (instance.State?.Name !== "running") continue; runningInstances.push(...)
RECURSIVE RunningOfInstances(_)
RunningOfInstances(instances) ==
    IF instances = <<>> THEN <<>>
    ELSE (IF Head(instances).State = Some("running")
          THEN <<Head(instances).InstanceId>> ELSE <<>>)
         \o RunningOfInstances(Tail(instances))

\* for (const reservation of describeResp.Reservations ?? [])
RECURSIVE RunningOfReservations(_)
RunningOfReservations(reservations) ==
    IF reservations = <<>> THEN <<>>
    ELSE RunningOfInstances(OrElse(Head(reservations).Instances, <<>>))
         \o RunningOfReservations(Tail(reservations))

RunningOf(describeResp) == RunningOfReservations(OrElse(describeResp.Reservations, <<>>))

IsIdle_AtOrBelow(avgCpu) ==
    avgCpu # None /\ ~RLess(Int2R(IdleThreshold), avgCpu[1])

\* typeof inst.avgCpu === "number" && inst.avgCpu < EC2_IDLE_CPU_THRESHOLD
IsIdle(avgCpu) ==
    avgCpu # None /\ RLess(avgCpu[1], Int2R(IdleThreshold))

\* detailed.filter((inst) => typeof inst.avgCpu === "number" && inst.avgCpu < threshold)
RECURSIVE IdleFilter(_)
IdleFilter(det) ==
    IF det = <<>> THEN <<>>
    ELSE (IF IsIdle(Head(det).avgCpu) THEN <<Head(det)>> ELSE <<>>)
         \o IdleFilter(Tail(det))

\* the per-instance lines of the v2 section: avg CPU (or n/a) and the IDLE? flag
RECURSIVE InstanceLines(_)
InstanceLines(det) ==
    IF det = <<>> THEN <<>>
    ELSE << [instanceId |-> Head(det).instanceId,
             cpuStr |-> Head(det).avgCpu,
             idleFlag |-> IF IsIdle(Head(det).avgCpu) THEN "IDLE?" ELSE ""] >>
         \o InstanceLines(Tail(det))

\* the text buildEc2Section returns
Ec2Text(run, det) ==
    [ category |-> "EC2",
      title |-> "=== EC2 (Instances & CPU Utilization) ===",
      narrative |-> IF Len(run) = 0 THEN "No running instances in this region."
                    ELSE "Per-instance details:",
      running |-> Len(run),
      idle |-> Len(IdleFilter(det)),
      lines |-> IF Len(run) = 0 THEN <<>> ELSE InstanceLines(det) ]

\* resourceDetails += "=== EC2 ===\nError collecting EC2 utilization.\n\n"
Ec2Placeholder ==
    [ category |-> "EC2",
      title |-> "=== EC2 ===",
      narrative |-> "Error collecting EC2 utilization.",
      running |-> 0,
      idle |-> 0,
      lines |-> <<>> ]

\* v1: the report and the JSON summary the handler returns
V1Result(run, det) ==
    [ status |-> "returned",
      statusCode |-> 200,
      message |-> "EC2 idle scan complete",
      totalRunning |-> Len(run),
      idleCount |-> Len(IdleFilter(det)),
      report |-> IF Len(IdleFilter(det)) = 0
                 THEN <<>>
                 ELSE IdleFilter(det) ]

Thrown == [status |-> "thrown"]

\* v1: getAverageCpuForInstance; v2: getMetricAggregate with statistic "Average"
AvgCpu(dpsOpt) ==
    IF version = "v1" THEN GetAverageCpuForInstance(dpsOpt)
    ELSE GetMetricAggregate(dpsOpt, "Average")

Ec2Proceed_FinalizesEarly(run, det) ==
    /\ runningInstances' = run
    /\ detailed' = det
    /\ IF Len(det) + 1 < Len(run)
       THEN /\ pc' = "ec2Cpu"
            /\ UNCHANGED <<idleInstances, resourceDetails, result, errors>>
       ELSE /\ idleInstances' = IdleFilter(det)
            /\ UNCHANGED errors
            /\ IF version = "v1"
               THEN /\ result' = V1Result(run, det)
                    /\ pc' = "done"
                    /\ UNCHANGED resourceDetails
               ELSE /\ resourceDetails' = Append(resourceDetails, Ec2Text(run, det))
                    /\ pc' = "ddbList"
                    /\ UNCHANGED result

\* the code after the inventory and after each instance's metric: the next
\* instance's metric is awaited, or the section is finished
Ec2Proceed(run, det) ==
    /\ runningInstances' = run
    /\ detailed' = det
    /\ IF Len(det) < Len(run)
       THEN /\ pc' = "ec2Cpu"
            /\ UNCHANGED <<idleInstances, resourceDetails, result, errors>>
       ELSE /\ idleInstances' = IdleFilter(det)
            /\ UNCHANGED errors
            /\ IF version = "v1"
               THEN /\ result' = V1Result(run, det)
                    /\ pc' = "done"
                    /\ UNCHANGED resourceDetails
               ELSE /\ resourceDetails' = Append(resourceDetails, Ec2Text(run, det))
                    /\ pc' = "ddbList"
                    /\ UNCHANGED result

Ec2Failed_NoPlaceholder ==
    /\ UNCHANGED ec2Vars
    /\ IF version = "v1"
       THEN /\ result' = Thrown
            /\ pc' = "done"
            /\ errors' = Append(errors, "Error during idle scan:")
            /\ UNCHANGED resourceDetails
       ELSE /\ pc' = "ddbList"
            /\ errors' = Append(errors, "EC2 section failed:")
            /\ UNCHANGED <<resourceDetails, result>>

\* ec2.send or cloudwatch.send rejects: v1 rethrows, v2's handler substitutes
\* the error section and goes on to DynamoDB
Ec2Failed ==
    /\ UNCHANGED ec2Vars
    /\ IF version = "v1"
       THEN /\ result' = Thrown
            /\ pc' = "done"
            /\ errors' = Append(errors, "Error during idle scan:")
            /\ UNCHANGED resourceDetails
       ELSE /\ resourceDetails' = Append(resourceDetails, Ec2Placeholder)
            /\ pc' = "ddbList"
            /\ errors' = Append(errors, "EC2 section failed:")
            /\ UNCHANGED result

\* await ec2.send(new DescribeInstancesCommand({}))
Ec2Describe(responses) ==
    /\ pc = "ec2Describe"
    /\ \/ \E resp \in responses : Ec2Proceed(RunningOf(resp), <<>>)
       \/ Ec2Failed
    /\ UNCHANGED <<version, billingVars, metricVars, ddbVars, ddbEstimatedMonthlyCost,
                   topServices, slackVars>>

\* await getMetricAggregate(...) / getAverageCpuForInstance(...) for the next instance
Ec2FetchCpu(responses) ==
    /\ pc = "ec2Cpu"
    /\ \/ \E dps \in responses :
              Ec2Proceed(runningInstances,
                         Append(detailed,
                                [instanceId |-> runningInstances[Len(detailed) + 1],
                                 avgCpu |-> AvgCpu(dps)]))
       \/ Ec2Failed
    /\ UNCHANGED <<version, billingVars, metricVars, ddbVars, ddbEstimatedMonthlyCost,
                   topServices, slackVars>>

MaxInstances == 3

Instance(id, state) == [InstanceId |-> id, State |-> state]

\* one reservation holding instances 1..n, all running
RunningReservation(n) ==
    [Instances |-> Some([i \in 1..n |-> Instance(i, Some("running"))])]

DescribeResponses ==
    { [Reservations |-> None],
      [Reservations |-> Some(<< [Instances |-> None] >>)],
      [Reservations |-> Some(<< [Instances |-> Some(<< Instance(1, Some("stopped")),
                                                       Instance(2, Some("running")) >>)] >>)],
      [Reservations |-> Some(<< [Instances |-> Some(<< Instance(1, None) >>)] >>)],
      [Reservations |-> Some(<< RunningReservation(1),
                                [Instances |-> Some(<< Instance(2, Some("running")) >>)] >>)] }
    \cup { [Reservations |-> Some(<< RunningReservation(n) >>)] : n \in 0..MaxInstances }

Cpu(v) == Datapoint(v, None)

\* CPUUtilization responses: no Datapoints, none, below, at and above the threshold
CpuResponses ==
    { None,
      Some(<<>>),
      Some(<< Cpu(Some(2)), Cpu(Some(3)), Cpu(Some(4)) >>),
      Some(<< Cpu(Some(5)) >>),
      Some(<< Cpu(Some(4)), Cpu(Some(6)) >>),
      Some(<< Cpu(Some(4)), Cpu(Some(5)) >>),
      Some(<< Cpu(Some(5)), Cpu(Some(6)) >>),
      Some(<< Cpu(None), Cpu(Some(6)) >>),
      Some(<< Cpu(Some(0)) >>) }

---------------------------------------------------------------------------
(* The EC2 scan on its own: v1's handler from its start, v2's handler from *)
(* the resource view on (after a billing query that returned no groups).   *)

InitEc2 ==
    /\ pc = "ec2Describe"
    /\ version \in {"v1", "v2"}
    /\ ceResp = [ResultsByTime |-> None]
    /\ tagKey = <<"P">>
    /\ totals = <<>>
    /\ valueLog = <<>>
    /\ arr = <<>>
    /\ MetricIdle
    /\ runningInstances = <<>>
    /\ detailed = <<>>
    /\ idleInstances = <<>>
    /\ resourceDetails = <<>>
    /\ DdbIdle
    /\ ddbEstimatedMonthlyCost = None
    /\ topServices = <<>>
    /\ slackEnv = TRUE
    /\ slackCalls = <<>>
    /\ fetchCalls = <<>>
    /\ errors = <<>>
    /\ result = [status |-> "pending"]

NextEc2 == Ec2Describe(DescribeResponses) \/ Ec2FetchCpu(CpuResponses)

SpecEc2 == InitEc2 /\ [][NextEc2]_vars

Ec2Finished ==
    \/ version = "v1" /\ result.status = "returned"
    \/ version = "v2" /\ pc = "ddbList" /\ resourceDetails[1].title # "=== EC2 ==="

\* instance i of `detailed` is reported as an idle candidate
FlaggedIdle(i) ==
    IF version = "v1"
    THEN \E j \in 1..Len(result.report) : result.report[j].instanceId = detailed[i].instanceId
    ELSE resourceDetails[1].lines[i].idleFlag = "IDLE?"

ReportedIdleCount ==
    IF version = "v1" THEN result.idleCount ELSE resourceDetails[1].idle

\* the aggregate is present and strictly below the threshold
BelowThreshold(avgCpu, threshold) ==
    avgCpu # None /\ avgCpu[1].n < threshold * avgCpu[1].d

\* C4: an instance is counted and flagged idle iff its aggregate is present
\* and strictly below the threshold (absent or equal to it: not idle).
C4_IdleIffStrictlyBelow ==
    Ec2Finished =>
        /\ \A i \in 1..Len(detailed) :
               FlaggedIdle(i) <=> BelowThreshold(detailed[i].avgCpu, IdleThreshold)
        /\ ReportedIdleCount =
               Cardinality({ i \in 1..Len(detailed) :
                                 BelowThreshold(detailed[i].avgCpu, IdleThreshold) })
        /\ Len(idleInstances) = ReportedIdleCount

\* a finished scan with an instance without datapoints, one exactly at the
\* threshold and one below it
C4_Witness ==
    /\ Ec2Finished
    /\ Len(detailed) = 3
    /\ \E i \in 1..3 : detailed[i].avgCpu = None /\ ~FlaggedIdle(i)
    /\ \E i \in 1..3 : detailed[i].avgCpu = Some(Int2R(5)) /\ ~FlaggedIdle(i)
    /\ \E i \in 1..3 : detailed[i].avgCpu = Some(Int2R(3)) /\ FlaggedIdle(i)

---------------------------------------------------------------------------
(* DynamoDB: the table listing, the per-table measurements and the cost    *)
(* estimate (buildDynamoSection).  Table sizes are carried in KiB: a table *)
(* of sizeKiB has TableSizeBytes = 1024 * sizeKiB.                         *)

DDB_LOOKBACK_DAYS == 7

DDB_READ_PRICE_PER_MILLION == R(25, 100)

DDB_WRITE_PRICE_PER_MILLION == R(125, 100)

DDB_STORAGE_PRICE_PER_GB_MONTH == R(25, 100)

\* Period: 3600 in getDynamoCapacitySum's GetMetricStatisticsCommand (seconds)
Period == 3600

\* the number of Period buckets between startTime and endTime
BucketsPerWindow == (DDB_LOOKBACK_DAYS * 24 * 60 * 60) \div Period

\* getDynamoCapacitySum(tableName, metricName) on the response's Datapoints
GetDynamoCapacitySum(dpsOpt) ==
    LET dps == OrElse(dpsOpt, <<>>)
    IN  IF Len(dps) = 0 THEN Int2R(0)
        ELSE ReduceSum(dps, "Sum", Int2R(0))

\* sizeBytes / (1024 * 1024 * 1024), with sizeBytes = 1024 * sizeKiB
SizeGB(sizeKiB) == RDiv(Int2R(sizeKiB), Int2R(1024 * 1024))

TableCost_DecimalGB(sizeKiB, totalReadUnits, totalWriteUnits) ==
    LET sizeGB == RDiv(Int2R(sizeKiB), Int2R(1000 * 1000))
        scaleToMonth == R(30, DDB_LOOKBACK_DAYS)
        readsCost == RMul(RDiv(RMul(totalReadUnits, scaleToMonth), Int2R(1000000)),
                          DDB_READ_PRICE_PER_MILLION)
        writesCost == RMul(RDiv(RMul(totalWriteUnits, scaleToMonth), Int2R(1000000)),
                           DDB_WRITE_PRICE_PER_MILLION)
        storageCost == RMul(sizeGB, DDB_STORAGE_PRICE_PER_GB_MONTH)
    IN  [ estMonthlyReadUnits |-> RMul(totalReadUnits, scaleToMonth),
          estMonthlyWriteUnits |-> RMul(totalWriteUnits, scaleToMonth),
          readsCost |-> readsCost, writesCost |-> writesCost, storageCost |-> storageCost,
          tableCost |-> RAdd(RAdd(readsCost, writesCost), storageCost) ]

\* scaleToMonth ... tableCost = readsCost + writesCost + storageCost
TableCost(sizeKiB, totalReadUnits, totalWriteUnits) ==
    LET sizeGB == SizeGB(sizeKiB)
        scaleToMonth == R(30, DDB_LOOKBACK_DAYS)
        estMonthlyReadUnits == RMul(totalReadUnits, scaleToMonth)
        estMonthlyWriteUnits == RMul(totalWriteUnits, scaleToMonth)
        readsCost == RMul(RDiv(estMonthlyReadUnits, Int2R(1000000)),
                          DDB_READ_PRICE_PER_MILLION)
        writesCost == RMul(RDiv(estMonthlyWriteUnits, Int2R(1000000)),
                           DDB_WRITE_PRICE_PER_MILLION)
        storageCost == RMul(sizeGB, DDB_STORAGE_PRICE_PER_GB_MONTH)
    IN  [ estMonthlyReadUnits |-> estMonthlyReadUnits,
          estMonthlyWriteUnits |-> estMonthlyWriteUnits,
          readsCost |-> readsCost, writesCost |-> writesCost, storageCost |-> storageCost,
          tableCost |-> RAdd(RAdd(readsCost, writesCost), storageCost) ]

\* text += `- ${tableName} | ... | est monthly cost: ...`
CostLine(name, sizeKiB, readUnits, writeUnits) ==
    [ table |-> name, kind |-> "cost", sizeBytes |-> sizeKiB,
      readUnits |-> readUnits, writeUnits |-> writeUnits,
      cost |-> TableCost(sizeKiB, readUnits, writeUnits) ]

\* text += `- ${tableName} | <error describing or reading metrics>\n`
ErrorLine(name) ==
    [ table |-> name, kind |-> "error", sizeBytes |-> 0,
      readUnits |-> Int2R(0), writeUnits |-> Int2R(0),
      cost |-> TableCost(0, Int2R(0), Int2R(0)) ]

\* the text buildDynamoSection returns; the line with the total of all tables
\* is only written when there are tables
DdbText(names, lines, total) ==
    [ category |-> "DynamoDB",
      title |-> "=== DynamoDB (Tables, Capacity & Est. Cost) ===",
      narrative |-> IF Len(names) = 0 THEN "No DynamoDB tables in this region."
                    ELSE "Estimated DynamoDB monthly total (all tables)",
      totalTables |-> Len(names),
      lines |-> lines,
      totalLine |-> IF Len(names) = 0 THEN None ELSE Some(total) ]

\* resourceDetails += "=== DynamoDB ===\nError collecting DynamoDB utilization.\n\n"
DdbPlaceholder ==
    [ category |-> "DynamoDB",
      title |-> "=== DynamoDB ===",
      narrative |-> "Error collecting DynamoDB utilization.",
      totalTables |-> 0,
      lines |-> <<>>,
      totalLine |-> None ]

\* entry.amount.toFixed(4) throws a TypeError for an amount that is no number
RenderThrows(entries) == \E i \in 1..Len(entries) : ~IsNumber(entries[i].amount)

\* v2, after both resource sections: the header and the top services are
\* rendered, then the by-tag query is awaited
AfterResources(errs) ==
    IF RenderThrows(topServices)
    THEN /\ pc' = "done"
         /\ result' = Thrown
         /\ errors' = Append(errs, "Error in cost scanner:")
    ELSE /\ pc' = "tag"
         /\ errors' = errs
         /\ UNCHANGED result

\* return { text, estimatedMonthlyCost: total }: the handler appends the text
\* and keeps the estimate
DdbReturn(names, lines, total, errs) ==
    /\ resourceDetails' = Append(resourceDetails, DdbText(names, lines, total))
    /\ ddbEstimatedMonthlyCost' = Some(total)
    /\ AfterResources(errs)

\* the for loop is done with one table: the next one is described, or the
\* total line is written and the section returned
DdbEndOfTable(lines, total, errs) ==
    /\ processed' = processed + 1
    /\ ddbLines' = lines
    /\ totalDdbMonthlyCost' = total
    /\ curTable' = [sizeBytes |-> 0, readUnits |-> Int2R(0)]
    /\ UNCHANGED <<listRequests, allTableNames, lastEvaluatedTableName>>
    /\ IF processed + 1 < Len(allTableNames)
       THEN /\ pc' = "ddbDescribe"
            /\ errors' = errs
            /\ UNCHANGED <<resourceDetails, ddbEstimatedMonthlyCost, result>>
       ELSE DdbReturn(allTableNames, lines, total, errs)

DdbTableFailed_NoErrorLine ==
    DdbEndOfTable(ddbLines, totalDdbMonthlyCost,
                  Append(errors, "Failed to describe/measure table"))

\* catch (err) inside the for loop
DdbTableFailed ==
    DdbEndOfTable(Append(ddbLines, ErrorLine(allTableNames[processed + 1])),
                  totalDdbMonthlyCost,
                  Append(errors, "Failed to describe/measure table"))

MaxPages == 3

\* a ListTablesCommand({ExclusiveStartTableName}) and the response it got (None
\* when the call rejected)
ListRequest(startKey, respOpt) ==
    [ExclusiveStartTableName |-> startKey, response |-> respOpt]

PushNames_Replaces(all, resp) == OrElse(resp.TableNames, <<>>)

\* const names = listResp.TableNames ?? []; allTableNames.push(...names)
PushNames(all, resp) == all \o OrElse(resp.TableNames, <<>>)

\* while (lastEvaluatedTableName): undefined and "" end the loop
HasMore(resp) == resp.LastEvaluatedTableName \notin {None, Some("")}

\* await dynamodb.send(new ListTablesCommand({ExclusiveStartTableName}))
DdbListTables(responses) ==
    /\ pc = "ddbList"
    /\ \/ \E resp \in responses :
              LET names == PushNames(allTableNames, resp)
                  more == HasMore(resp)
              IN  /\ more => Len(listRequests) + 1 < MaxPages
                  /\ listRequests' = Append(listRequests,
                                            ListRequest(lastEvaluatedTableName, Some(resp)))
                  /\ allTableNames' = names
                  /\ lastEvaluatedTableName' = resp.LastEvaluatedTableName
                  /\ UNCHANGED <<processed, curTable, ddbLines, totalDdbMonthlyCost>>
                  /\ IF more
                     THEN /\ pc' = "ddbList"
                          /\ UNCHANGED <<resourceDetails, ddbEstimatedMonthlyCost, result,
                                         errors>>
                     ELSE IF Len(names) = 0
                     THEN DdbReturn(names, <<>>, Int2R(0), errors)
                     ELSE /\ pc' = "ddbDescribe"
                          /\ UNCHANGED <<resourceDetails, ddbEstimatedMonthlyCost, result,
                                         errors>>
       \/ /\ listRequests' = Append(listRequests,
                                    ListRequest(lastEvaluatedTableName, None))
          /\ UNCHANGED <<allTableNames, lastEvaluatedTableName, processed, curTable,
                         ddbLines, totalDdbMonthlyCost, ddbEstimatedMonthlyCost>>
          /\ resourceDetails' = Append(resourceDetails, DdbPlaceholder)
          /\ AfterResources(Append(errors, "Dynamo section failed:"))
    /\ UNCHANGED <<version, billingVars, metricVars, ec2Vars, topServices, slackVars>>

\* await dynamodb.send(new DescribeTableCommand({TableName: tableName}))
DdbDescribeTable(responses) ==
    /\ pc = "ddbDescribe"
    /\ \/ \E resp \in responses :
              IF resp.Table = None
              THEN DdbEndOfTable(ddbLines, totalDdbMonthlyCost, errors)
              ELSE /\ curTable' = [sizeBytes |-> OrElse(resp.Table[1].TableSizeBytes, 0),
                                   readUnits |-> Int2R(0)]
                   /\ pc' = "ddbRead"
                   /\ UNCHANGED <<listRequests, allTableNames, lastEvaluatedTableName,
                                  processed, ddbLines, totalDdbMonthlyCost,
                                  resourceDetails, ddbEstimatedMonthlyCost, result,
                                  errors>>
       \/ DdbTableFailed
    /\ UNCHANGED <<version, billingVars, metricVars, ec2Vars, topServices, slackVars>>

\* await getDynamoCapacitySum(tableName, "ConsumedReadCapacityUnits")
DdbReadUnits(responses) ==
    /\ pc = "ddbRead"
    /\ \/ \E dps \in responses :
              /\ datapoints' = dps
              /\ statistic' = "Sum"
              /\ curTable' = [curTable EXCEPT !.readUnits = GetDynamoCapacitySum(dps)]
              /\ pc' = "ddbWrite"
              /\ UNCHANGED <<listRequests, allTableNames, lastEvaluatedTableName,
                             processed, ddbLines, totalDdbMonthlyCost,
                             resourceDetails, ddbEstimatedMonthlyCost, result, errors>>
       \/ DdbTableFailed /\ UNCHANGED <<datapoints, statistic>>
    /\ UNCHANGED <<version, billingVars, aggregate, ec2Vars, topServices, slackVars>>

\* await getDynamoCapacitySum(tableName, "ConsumedWriteCapacityUnits"), then the
\* cost of the table is computed and added
DdbWriteUnits(responses) ==
    /\ pc = "ddbWrite"
    /\ \/ \E dps \in responses :
              LET line == CostLine(allTableNames[processed + 1], curTable.sizeBytes,
                                   curTable.readUnits, GetDynamoCapacitySum(dps))
              IN  /\ datapoints' = dps
                  /\ statistic' = "Sum"
                  /\ DdbEndOfTable(Append(ddbLines, line),
                                   RAdd(totalDdbMonthlyCost, line.cost.tableCost), errors)
       \/ DdbTableFailed /\ UNCHANGED <<datapoints, statistic>>
    /\ UNCHANGED <<version, billingVars, aggregate, ec2Vars, topServices, slackVars>>

TableDescription(size) == [Table |-> Some([TableSizeBytes |-> size])]

\* 3 GiB and 6 GiB, in KiB
DescribeTableResponses ==
    { [Table |-> None],
      TableDescription(None),
      TableDescription(Some(3 * 1024 * 1024)),
      TableDescription(Some(6 * 1024 * 1024)) }

Units(s) == Datapoint(None, s)

CapacityResponses ==
    { Some(<<>>),
      Some(<< Units(Some(1400000)), Units(None) >>) }

Page(names, last) == [TableNames |-> names, LastEvaluatedTableName |-> last]

ListTablesResponses ==
    { Page(None, None),
      Page(Some(<<>>), None),
      Page(Some(<<"t3">>), None),
      Page(Some(<<"t2">>), Some("")),
      Page(Some(<<"t1">>), Some("t1")) }

---------------------------------------------------------------------------
(* The DynamoDB section on its own: v2's handler from the table listing on *)
(* (no billing groups, no running instance).                               *)

InitDynamo ==
    /\ pc = "ddbList"
    /\ version = "v2"
    /\ ceResp = [ResultsByTime |-> None]
    /\ tagKey = <<"P">>
    /\ totals = <<>>
    /\ valueLog = <<>>
    /\ arr = <<>>
    /\ MetricIdle
    /\ runningInstances = <<>>
    /\ detailed = <<>>
    /\ idleInstances = <<>>
    /\ resourceDetails = << Ec2Text(<<>>, <<>>) >>
    /\ DdbIdle
    /\ ddbEstimatedMonthlyCost = None
    /\ topServices = <<>>
    /\ slackEnv = TRUE
    /\ slackCalls = <<>>
    /\ fetchCalls = <<>>
    /\ errors = <<>>
    /\ result = [status |-> "pending"]

NextDynamo ==
    \/ DdbListTables(ListTablesResponses)
    \/ DdbDescribeTable(DescribeTableResponses)
    \/ DdbReadUnits(CapacityResponses)
    \/ DdbWriteUnits(CapacityResponses)

SpecDynamo == InitDynamo /\ [][NextDynamo]_vars

CostLines == { i \in 1..Len(ddbLines) : ddbLines[i].kind = "cost" }

\* C10: with pricing and usage fixed, doubling sizeBytes doubles storageCost
\* and leaves readCost and writeCost unchanged; totalCost is the sum of the
\* three; 3 GiB without consumed units costs 0.75, all of it storage.
C10_CostLinearInSize ==
    \A i \in CostLines :
        LET l == ddbLines[i]
            doubled == TableCost(2 * l.sizeBytes, l.readUnits, l.writeUnits)
        IN  /\ doubled.storageCost = RMul(Int2R(2), l.cost.storageCost)
            /\ doubled.readsCost = l.cost.readsCost
            /\ doubled.writesCost = l.cost.writesCost
            /\ l.cost.tableCost =
                   RAdd(RAdd(l.cost.readsCost, l.cost.writesCost), l.cost.storageCost)
            /\ (l.sizeBytes = 3 * 1024 * 1024 /\ l.readUnits.n = 0 /\ l.writeUnits.n = 0) =>
                   /\ l.cost.storageCost = R(75, 100)
                   /\ l.cost.tableCost = R(75, 100)
                   /\ l.cost.readsCost = Int2R(0)
                   /\ l.cost.writesCost = Int2R(0)

\* a 3 GiB table without consumed units, and two tables with the same usage
\* of which one is twice as large as the other
C10_Witness ==
    /\ \E i \in CostLines :
           /\ ddbLines[i].sizeBytes = 3 * 1024 * 1024
           /\ ddbLines[i].readUnits.n = 0
           /\ ddbLines[i].writeUnits.n = 0
           /\ ddbLines[i].cost.tableCost = R(75, 100)
    /\ \E i, j \in CostLines :
           /\ ddbLines[j].sizeBytes = 2 * ddbLines[i].sizeBytes
           /\ ddbLines[i].sizeBytes > 0
           /\ ddbLines[i].readUnits.n > 0
           /\ ddbLines[j].readUnits = ddbLines[i].readUnits
           /\ ddbLines[j].writeUnits = ddbLines[i].writeUnits
           /\ ddbLines[j].cost.storageCost = RMul(Int2R(2), ddbLines[i].cost.storageCost)
           /\ ddbLines[j].cost.readsCost = ddbLines[i].cost.readsCost

\* the samples of a response, a missing Sum counting 0, added up
RECURSIVE SampleSum(_)
SampleSum(dps) ==
    IF dps = <<>> THEN 0
    ELSE OrElse(Head(dps).Sum, 0) + SampleSum(Tail(dps))

\* the per-bucket mean of the returned samples times the buckets of the window
MeanTimesBuckets(dpsOpt) ==
    LET dps == OrElse(dpsOpt, <<>>)
    IN  IF Len(dps) = 0 THEN Int2R(0)
        ELSE RMul(R(SampleSum(dps), Len(dps)), Int2R(BucketsPerWindow))

\* the capacity fetch for the read units, and the one for the write units that
\* ends in the table's cost line
ReadUnitsFetched == pc = "ddbRead" /\ pc' = "ddbWrite"

WriteUnitsFetched ==
    /\ pc = "ddbWrite"
    /\ Len(ddbLines') = Len(ddbLines) + 1
    /\ ddbLines'[Len(ddbLines')].kind = "cost"

\* C11: the consumed-unit total the cost estimate uses is the per-bucket mean
\* of the returned samples times bucketsPerWindow, 0 without samples, and the
\* monthly units are that total times 30 / windowLengthInDays, also when fewer
\* samples than buckets were returned.
C11_WindowTotalIsMeanTimesBuckets ==
    [][ /\ ReadUnitsFetched => curTable'.readUnits = MeanTimesBuckets(datapoints')
        /\ WriteUnitsFetched =>
               LET l == ddbLines'[Len(ddbLines')]
               IN  /\ l.readUnits = curTable.readUnits
                   /\ l.writeUnits = MeanTimesBuckets(datapoints')
                   /\ l.cost.estMonthlyReadUnits =
                          RMul(l.readUnits, R(30, DDB_LOOKBACK_DAYS))
                   /\ l.cost.estMonthlyWriteUnits =
                          RMul(l.writeUnits, R(30, DDB_LOOKBACK_DAYS)) ]_vars

\* the costs of the cost lines among the first n lines, added up
RECURSIVE CostLineSum(_, _)
CostLineSum(lines, n) ==
    IF n = 0 THEN Int2R(0)
    ELSE RAdd(CostLineSum(lines, n - 1),
              IF lines[n].kind = "cost"
              THEN RAdd(RAdd(lines[n].cost.readsCost, lines[n].cost.writesCost),
                        lines[n].cost.storageCost)
              ELSE Int2R(0))

\* a step that ends the loop body for the table at hand, and how it ended
TableEnded == pc \in {"ddbDescribe", "ddbRead", "ddbWrite"} /\ processed' = processed + 1

TableThrew ==
    /\ TableEnded
    /\ Len(errors') > Len(errors)
    /\ errors'[Len(errors) + 1] = "Failed to describe/measure table"

TableMeasured == TableEnded /\ pc = "ddbWrite" /\ ~TableThrew

TableMissing == TableEnded /\ pc = "ddbDescribe" /\ ~TableThrew

\* what holds of every table: a measured table gets a cost line and adds its
\* cost, a table whose describe or metric fetch threw gets the error line and
\* adds nothing, the total is the sum over the cost lines, and the loop goes on
\* to the next table or returns the total as estimatedMonthlyCost
PerTableAccounting ==
    /\ TableMeasured =>
           /\ Len(ddbLines') = Len(ddbLines) + 1
           /\ SubSeq(ddbLines', 1, Len(ddbLines)) = ddbLines
           /\ ddbLines'[Len(ddbLines')].kind = "cost"
           /\ ddbLines'[Len(ddbLines')].table = allTableNames[processed + 1]
    /\ TableThrew =>
           /\ ddbLines' = Append(ddbLines, ErrorLine(allTableNames[processed + 1]))
           /\ totalDdbMonthlyCost' = totalDdbMonthlyCost
    /\ totalDdbMonthlyCost' = CostLineSum(ddbLines', Len(ddbLines'))
    /\ TableEnded =>
           IF processed' < Len(allTableNames)
           THEN pc' = "ddbDescribe" /\ ddbEstimatedMonthlyCost' = None
           ELSE /\ pc' \notin {"ddbList", "ddbDescribe", "ddbRead", "ddbWrite"}
                /\ ddbEstimatedMonthlyCost' = Some(totalDdbMonthlyCost')
                /\ resourceDetails'[Len(resourceDetails')].lines = ddbLines'

\* C13: the returned estimatedMonthlyCost is the sum of readsCost + writesCost
\* + storageCost over the tables measured without error; a failing table
\* (describe or metric fetch throwing, or describe returning no table) adds
\* nothing, gets an error line instead of a cost line, and the tables after it
\* are still processed.
C13_FailingTableGetsErrorLine ==
    [][ /\ PerTableAccounting
        /\ TableMissing =>
               /\ ddbLines' = Append(ddbLines, ErrorLine(allTableNames[processed + 1]))
               /\ totalDdbMonthlyCost' = totalDdbMonthlyCost ]_vars

\* C13, amended: as above, but a table whose describe returns no Table gets no
\* line at all (neither a cost line nor an error line) and logs nothing.
C13_MissingTableGetsNoLine ==
    [][ /\ PerTableAccounting
        /\ TableMissing =>
               /\ ddbLines' = ddbLines
               /\ errors' = errors
               /\ totalDdbMonthlyCost' = totalDdbMonthlyCost ]_vars

\* a returned section for three tables: the first threw, the second had no
\* Table, the third was measured
C13_Witness ==
    /\ Len(allTableNames) = 3
    /\ processed = 3
    /\ Len(ddbLines) = 2
    /\ ddbLines[1].kind = "error"
    /\ ddbLines[2].kind = "cost"
    /\ ddbLines[2].table = allTableNames[3]
    /\ totalDdbMonthlyCost.n > 0
    /\ ddbEstimatedMonthlyCost = Some(totalDdbMonthlyCost)

\* the names of the pages answered among the first n requests, in page order
RECURSIVE PageNames(_, _)
PageNames(log, n) ==
    IF n = 0 THEN <<>>
    ELSE PageNames(log, n - 1) \o
         (IF log[n].response = None THEN <<>>
          ELSE OrElse(log[n].response[1].TableNames, <<>>))

\* the continuation token of a page, absent when the page carries none
TokenOf(respOpt) ==
    IF respOpt = None THEN None
    ELSE IF respOpt[1].LastEvaluatedTableName = Some("") THEN None
    ELSE respOpt[1].LastEvaluatedTableName

ListStep == pc = "ddbList" /\ Len(listRequests') = Len(listRequests) + 1

\* C14: the listing loop requests pages until a page carries no continuation
\* token: a page without a token ends the loop, a page with one is followed by
\* a request whose start key is that token, and the collected list is the
\* concatenation, in page order, of the names of every page returned.
C14_ListingLoop ==
    [][ ListStep =>
            LET n == Len(listRequests')
                req == listRequests'[n]
            IN  /\ SubSeq(listRequests', 1, n - 1) = listRequests
                /\ req.ExclusiveStartTableName =
                       (IF n = 1 THEN None ELSE TokenOf(listRequests[n - 1].response))
                /\ n > 1 => TokenOf(listRequests[n - 1].response) # None
                /\ allTableNames' = PageNames(listRequests', n)
                /\ req.response # None =>
                       (pc' = "ddbList" <=> TokenOf(req.response) # None)
                /\ pc' # "ddbList" => processed' = 0 ]_vars

\* three pages were requested, the first two carried a token, and the list
\* holds the names of all three
C14_Witness ==
    /\ Len(listRequests) = 3
    /\ listRequests[2].ExclusiveStartTableName = Some("t1")
    /\ listRequests[3].ExclusiveStartTableName = Some("t1")
    /\ TokenOf(listRequests[3].response) = None
    /\ allTableNames = <<"t1", "t1", "t3">>
    /\ pc = "ddbDescribe"


---------------------------------------------------------------------------
(* The handlers of v1.1 and v2: billing by service, (v2) the resource      *)
(* view, billing by tag, the Slack message, the result.                    *)

TopN == 10

\* arr.slice(0, 10)
Top(a) == SubSeq(a, 1, IF Len(a) < TopN THEN Len(a) ELSE TopN)

\* the entries a rendering loop wrote before entry.amount.toFixed threw
RECURSIVE Rendered(_)
Rendered(entries) ==
    IF entries = <<>> \/ ~IsNumber(Head(entries).amount) THEN <<>>
    ELSE <<Head(entries)>> \o Rendered(Tail(entries))

Returned ==
    [ status |-> "returned", statusCode |-> 200, topServices |-> topServices ]

\* catch (err) { console.error("Error in cost scanner:", err); throw err; }
HandlerThrows(errs) ==
    /\ pc' = "done"
    /\ result' = Thrown
    /\ errors' = Append(errs, "Error in cost scanner:")

\* const { timePeriod, arr } = await getCostByServiceLast7Days();
\* v1.1 logs the top services at once, v2 goes on to the resource view
HandlerByService(responses) ==
    /\ pc = "svc"
    /\ \/ \E resp \in responses :
              LET t == ServiceTotals(AllGroups(resp), <<>>)
              IN  /\ ceResp' = resp
                  /\ totals' = t
                  /\ valueLog' = ServiceNames(AllGroups(resp))
                  /\ arr' = Rank(t)
                  /\ topServices' = Top(Rank(t))
                  /\ IF version = "v1.1" /\ RenderThrows(Top(Rank(t)))
                     THEN HandlerThrows(errors)
                     ELSE /\ pc' = IF version = "v2" THEN "ec2Describe" ELSE "tag"
                          /\ UNCHANGED <<result, errors>>
       \/ /\ HandlerThrows(errors)
          /\ UNCHANGED <<ceResp, totals, valueLog, arr, topServices>>
    /\ UNCHANGED <<version, tagKey, metricVars, ec2Vars, ddbVars, resourceDetails,
                   ddbEstimatedMonthlyCost, slackVars>>

\* the message: top services, tag block, the DynamoDB estimate when it is not
\* null, the resource details
SlackText(tagBlock) ==
    [ services |-> topServices,
      tags |-> tagBlock,
      ddbTotalLine |-> ddbEstimatedMonthlyCost,
      resourceDetails |-> resourceDetails ]

\* await postToSlack(slackText): without the env vars it returns at once and
\* the handler returns its result; otherwise chat.postMessage is fetched
PostToSlack(text, errs) ==
    /\ slackCalls' = Append(slackCalls, text)
    /\ errors' = errs
    /\ UNCHANGED slackEnv
    /\ IF ~slackEnv
       THEN /\ pc' = "done"
            /\ result' = Returned
            /\ UNCHANGED fetchCalls
       ELSE /\ pc' = "slackFetch"
            /\ fetchCalls' = Append(fetchCalls, text)
            /\ UNCHANGED result

\* try { await getCostByTagLast7Days(COST_TAG_KEY) ... } catch (tagErr) {...},
\* then the rest of the message and postToSlack
HandlerByTag(responses) ==
    /\ pc = "tag"
    /\ \/ \E resp \in responses :
              LET t == TagTotals(AllGroups(resp), tagKey, <<>>)
                  topTags == Top(Rank(t))
              IN  /\ ceResp' = resp
                  /\ totals' = t
                  /\ valueLog' = TagValues(AllGroups(resp), tagKey)
                  /\ arr' = Rank(t)
                  /\ IF RenderThrows(topTags)
                     THEN PostToSlack(
                              SlackText([status |-> "failed", entries |-> Rendered(topTags)]),
                              Append(errors, "Error getting tag breakdown:"))
                     ELSE PostToSlack(SlackText([status |-> "ok", entries |-> topTags]),
                                      errors)
       \/ /\ PostToSlack(SlackText([status |-> "failed", entries |-> <<>>]),
                         Append(errors, "Error getting tag breakdown:"))
          /\ UNCHANGED <<ceResp, totals, valueLog, arr>>
    /\ UNCHANGED <<version, tagKey, metricVars, ec2Vars, ddbVars, resourceDetails,
                   ddbEstimatedMonthlyCost, topServices>>

\* const res = await fetch("https://slack.com/api/chat.postMessage", ...):
\* a rejection leaves postToSlack and the handler's try block
SlackFetchSettles ==
    /\ pc = "slackFetch"
    /\ \/ pc' = "slackJson" /\ UNCHANGED <<result, errors>>
       \/ HandlerThrows(errors)
    /\ UNCHANGED <<version, billingVars, metricVars, ec2Vars, ddbVars, resourceDetails,
                   ddbEstimatedMonthlyCost, topServices, slackVars>>

\* const data = await res.json(); if (!data.ok) console.error(...); then the
\* handler returns statusCode 200
SlackJsonSettles ==
    /\ pc = "slackJson"
    /\ \/ \E ok \in BOOLEAN :
              /\ pc' = "done"
              /\ result' = Returned
              /\ errors' = IF ok THEN errors ELSE Append(errors, "Slack API error:")
       \/ HandlerThrows(errors)
    /\ UNCHANGED <<version, billingVars, metricVars, ec2Vars, ddbVars, resourceDetails,
                   ddbEstimatedMonthlyCost, topServices, slackVars>>

HandlerCeResponses ==
    { [ResultsByTime |-> None],
      [ResultsByTime |-> Some(<< [Groups |-> Some(<< Group(<<Key_Pw>>, Some("2")),
                                                     Group(<<Key_Ox>>, Some("NaN")) >>)] >>)],
      [ResultsByTime |-> Some(<< [Groups |-> Some(<< Group(<<Key_Pw>>, Some("1")),
                                                     Group(<<Key_Pa>>, Some("1")) >>)] >>)],
      [ResultsByTime |-> Some(<< [Groups |-> Some(<< Group(<<Key_valueOf>>, Some("3")) >>)] >>)] }

HandlerDescribeResponses ==
    { [Reservations |-> Some(<< RunningReservation(n) >>)] : n \in {0, 1} }

HandlerCpuResponses ==
    { Some(<<>>), Some(<< Cpu(Some(2)), Cpu(Some(3)), Cpu(Some(4)) >>) }

HandlerListResponses ==
    { Page(Some(<<>>), None), Page(Some(<<"t3">>), None) }

HandlerDescribeTableResponses ==
    { [Table |-> None], TableDescription(Some(3 * 1024 * 1024)) }

Init ==
    /\ pc = "svc"
    /\ version \in {"v1.1", "v2"}
    /\ ceResp = [ResultsByTime |-> None]
    /\ tagKey = <<"P">>
    /\ totals = <<>>
    /\ valueLog = <<>>
    /\ arr = <<>>
    /\ MetricIdle
    /\ runningInstances = <<>>
    /\ detailed = <<>>
    /\ idleInstances = <<>>
    /\ resourceDetails = <<>>
    /\ DdbIdle
    /\ ddbEstimatedMonthlyCost = None
    /\ topServices = <<>>
    /\ slackEnv \in BOOLEAN
    /\ slackCalls = <<>>
    /\ fetchCalls = <<>>
    /\ errors = <<>>
    /\ result = [status |-> "pending"]

Next ==
    \/ HandlerByService(HandlerCeResponses)
    \/ Ec2Describe(HandlerDescribeResponses)
    \/ Ec2FetchCpu(HandlerCpuResponses)
    \/ DdbListTables(HandlerListResponses)
    \/ DdbDescribeTable(HandlerDescribeTableResponses)
    \/ DdbReadUnits(CapacityResponses)
    \/ DdbWriteUnits(CapacityResponses)
    \/ HandlerByTag(HandlerCeResponses)
    \/ SlackFetchSettles
    \/ SlackJsonSettles

Spec == Init /\ [][Next]_vars

---------------------------------------------------------------------------
(* Properties of the handler runs.                                         *)

Logged(msg) == \E i \in 1..Len(errors) : errors[i] = msg

\* C1: whatever the collaborators answer, the run completes normally and has
\* called postToSlack with the report it could assemble.
C1_RunAlwaysDelivers ==
    pc = "done" => (result.status = "returned" /\ Len(slackCalls) = 1)

\* C2: when buildEc2Section or buildDynamoSection throws, the report holds the
\* other category's section and a placeholder for the failed one (short title,
\* error notice, no lines), and the failed category adds no total.
C2_FailedSectionIsolated ==
    (version = "v2" /\ Len(slackCalls) > 0) =>
        LET text == slackCalls[1]
            sections == text.resourceDetails
        IN  /\ Len(sections) = 2
            /\ sections[1].category = "EC2"
            /\ sections[2].category = "DynamoDB"
            /\ IF Logged("EC2 section failed:")
               THEN /\ sections[1].title = "=== EC2 ==="
                    /\ sections[1].narrative = "Error collecting EC2 utilization."
                    /\ sections[1].lines = <<>>
               ELSE /\ sections[1].title = "=== EC2 (Instances & CPU Utilization) ==="
                    /\ sections[1].running = Len(runningInstances)
                    /\ Len(sections[1].lines) = Len(detailed)
            /\ IF Logged("Dynamo section failed:")
               THEN /\ sections[2].title = "=== DynamoDB ==="
                    /\ sections[2].narrative = "Error collecting DynamoDB utilization."
                    /\ sections[2].lines = <<>>
                    /\ sections[2].totalLine = None
                    /\ text.ddbTotalLine = None
               ELSE /\ sections[2].title = "=== DynamoDB (Tables, Capacity & Est. Cost) ==="
                    /\ sections[2].totalTables = Len(allTableNames)
                    /\ sections[2].lines = ddbLines
                    /\ text.ddbTotalLine = Some(totalDdbMonthlyCost)

\* a posted report whose EC2 section failed and whose DynamoDB section lists a
\* measured table
C2_Witness ==
    /\ version = "v2"
    /\ Len(slackCalls) > 0
    /\ Logged("EC2 section failed:")
    /\ ~Logged("Dynamo section failed:")
    /\ slackCalls[1].resourceDetails[1] = Ec2Placeholder
    /\ \E i \in 1..Len(slackCalls[1].resourceDetails[2].lines) :
           slackCalls[1].resourceDetails[2].lines[i].kind = "cost"

\* C3: once the message was sent to the chat API, the handler returns
\* statusCode 200 whatever becomes of the call.
C3_NotifyFailureNotPropagated ==
    (pc = "done" /\ Len(fetchCalls) > 0) =>
        (result.status = "returned" /\ result.statusCode = 200)

\* C9: a category with zero resources has a section that notes it and no
\* estimated monthly cost.
C9_ZeroInventoryCostAbsent ==
    (version = "v2" /\ Len(resourceDetails) = 2) =>
        /\ (~Logged("EC2 section failed:") /\ resourceDetails[1].running = 0) =>
               resourceDetails[1].narrative = "No running instances in this region."
        /\ (~Logged("Dynamo section failed:") /\ resourceDetails[2].totalTables = 0) =>
               /\ resourceDetails[2].narrative = "No DynamoDB tables in this region."
               /\ ddbEstimatedMonthlyCost = None

---------------------------------------------------------------------------
(* The resource view of v2's handler with several resources per category:  *)
(* from the instance inventory to the posted message (after a billing      *)
(* query that returned no groups).                                         *)

ResourceDescribeResponses ==
    { [Reservations |-> Some(<< RunningReservation(n) >>)] : n \in {0, 2} }

ResourceListResponses ==
    { Page(Some(<<>>), None), Page(Some(<<"t1", "t2">>), None) }

InitResources == InitEc2 /\ version = "v2"

NextResources ==
    \/ Ec2Describe(ResourceDescribeResponses)
    \/ Ec2FetchCpu(HandlerCpuResponses)
    \/ DdbListTables(ResourceListResponses)
    \/ DdbDescribeTable(HandlerDescribeTableResponses)
    \/ DdbReadUnits(CapacityResponses)
    \/ DdbWriteUnits(CapacityResponses)
    \/ HandlerByTag({[ResultsByTime |-> None]})
    \/ SlackFetchSettles
    \/ SlackJsonSettles

SpecResources == InitResources /\ [][NextResources]_vars

\* a per-resource computation of the category is still to come or awaited
Ec2Pending == pc \in {"ec2Describe", "ec2Cpu"}

DdbPending == pc \in {"ddbList", "ddbDescribe", "ddbRead", "ddbWrite"}

\* C12: a category's section is in the report, and its total is kept or used by
\* the handler, only after every per-resource computation of the category has
\* completed: every running instance has its CPU aggregate, every listed table
\* was described and measured, and none is pending.
C12_SectionAfterAllResources ==
    /\ Len(resourceDetails) >= 1 =>
           /\ ~Ec2Pending
           /\ ~Logged("EC2 section failed:") =>
                  /\ Len(detailed) = Len(runningInstances)
                  /\ resourceDetails[1].running = Len(runningInstances)
                  /\ Len(runningInstances) > 0 =>
                         resourceDetails[1].lines = InstanceLines(detailed)
    /\ Len(resourceDetails) >= 2 =>
           /\ ~DdbPending
           /\ ~Logged("Dynamo section failed:") =>
                  /\ processed = Len(allTableNames)
                  /\ resourceDetails[2].lines = ddbLines
                  /\ Len(allTableNames) > 0 =>
                         resourceDetails[2].totalLine = Some(totalDdbMonthlyCost)
    /\ ddbEstimatedMonthlyCost # None =>
           /\ Len(resourceDetails) = 2
           /\ ~DdbPending
           /\ processed = Len(allTableNames)
           /\ ddbEstimatedMonthlyCost = Some(totalDdbMonthlyCost)
    /\ Len(slackCalls) > 0 =>
           /\ Len(resourceDetails) = 2
           /\ slackCalls[1].resourceDetails = resourceDetails
           /\ slackCalls[1].ddbTotalLine = ddbEstimatedMonthlyCost

\* a posted report with two measured instances and two costed tables
C12_Witness ==
    /\ Len(slackCalls) > 0
    /\ ~Logged("EC2 section failed:")
    /\ ~Logged("Dynamo section failed:")
    /\ Len(runningInstances) = 2
    /\ Len(slackCalls[1].resourceDetails[1].lines) = 2
    /\ Len(allTableNames) = 2
    /\ CostLines = {1, 2}
    /\ slackCalls[1].ddbTotalLine = Some(totalDdbMonthlyCost)
    /\ totalDdbMonthlyCost.n > 0

====
